---- MODULE Spec2Model ----
(***************************************************************************)
(* Model of src/main.py: the CalendlyClient (cached session identity,      *)
(* test_connection, get_event_types, get_availability) and the FastAPI     *)
(* handlers built on it.  Handlers are coroutines on one event loop: a     *)
(* step of the model is the code between two awaits.                       *)
(*                                                                         *)
(* Strings that the code splits or prefix-tests are sequences of their     *)
(* "/"-separated segments: "https://h/x" is <<"https:", "", "h", "x">>,    *)
(* so s.split("/")[-1] is the last element and a prefix ending in "/" is   *)
(* a sequence ending in the empty segment.                                 *)
(***************************************************************************)
EXTENDS Integers, Sequences, FiniteSets, Bags, TLC

VARIABLES startup,    \* position of startup_event: "init", "wait", "serving"
          user_uri,   \* CalendlyClient.user_uri
          user_uuid,  \* CalendlyClient.user_uuid
          procs,      \* the bag of in-flight inbound requests
          lastCached, \* history: URI of the last verification that set both fields
          prior,      \* history: the identity before the last step
          req,        \* the inbound request accepted in the last step
          out,        \* the outbound request issued in the last step
          up,         \* the upstream answer consumed in the last step
          ev          \* the inbound response delivered in the last step

vars == <<startup, user_uri, user_uuid, procs, lastCached, prior, req, out, up, ev>>

\* Number of inbound requests that may be in flight at once.
NProcs == 2

-----------------------------------------------------------------------------
(* Python values *)

NONE == [t |-> "none", v |-> <<>>]

ABSENT == [t |-> "absent", v |-> <<>>]

PyStr(s) == [t |-> "str", v |-> s]

PyInt(d) == [t |-> "int", v |-> <<d>>]

\* bool(v) is False
Falsy(v) == \/ v.t = "none"
            \/ v.t = "str" /\ v.v = <<"">>
            \/ v.t = "int" /\ v.v = <<"0">>

\* s.startswith(p) for a prefix p that ends in "/"
StartsWith(s, p) == /\ Len(s) >= Len(p)
                    /\ \A i \in 1..(Len(p) - 1) : s[i] = p[i]

\* s.split("/")[-1]
LastSegment(s) == s[Len(s)]

\* d.get(k, default)
Get(d, k, default) == IF k \in DOMAIN d THEN d[k] ELSE default

-----------------------------------------------------------------------------
(* String constants of the code and the values the environment may supply *)

\* "https://api.calendly.com/event_types/"
EventTypePrefix == <<"https:", "", "api.calendly.com", "event_types", "">>

\* "https://api.calendly.com/"
BookPrefix == <<"https:", "", "api.calendly.com", "">>

UriA == <<"https:", "", "api.calendly.com", "users", "AAA">>

UriB == <<"https:", "", "api.calendly.com", "users", "BBB">>

EventTypeX == <<"https:", "", "api.calendly.com", "event_types", "abc">>

OtherHost == <<"https:", "", "example.com", "event_types", "abc">>

\* Upstream response bodies.  fmt "text" is a body response.json() rejects.
Body(id, fmt, shape, uri, name, coll) ==
    [id |-> id, fmt |-> fmt, shape |-> shape, uri |-> uri, name |-> name, coll |-> coll]

ErrText == Body("error text", "text", "none", ABSENT, FALSE, "absent")

MeBodies == { Body("me A", "json", "object", PyStr(UriA), TRUE, "absent"),
              Body("me B", "json", "object", PyStr(UriB), TRUE, "absent"),
              Body("me A without name", "json", "object", PyStr(UriA), FALSE, "absent"),
              Body("me uri null", "json", "object", NONE, TRUE, "absent"),
              Body("me uri number", "json", "object", PyInt("7"), TRUE, "absent"),
              Body("me without resource", "json", "object", ABSENT, FALSE, "absent"),
              ErrText }

ListBodies == { Body("collection", "json", "object", ABSENT, FALSE, "list"),
                Body("object without collection", "json", "object", ABSENT, FALSE, "absent"),
                Body("collection null", "json", "object", ABSENT, FALSE, "null"),
                Body("array", "json", "array", ABSENT, FALSE, "absent"),
                ErrText }

LinkBodies == { Body("created link", "json", "object", ABSENT, FALSE, "absent"),
                ErrText }

Response(ep, status, body) ==
    [ep |-> ep, kind |-> "response", status |-> status, body |-> body, ret |-> "n/a"]

TransportError(ep) ==
    [ep |-> ep, kind |-> "exception", status |-> 0, body |-> ErrText, ret |-> "n/a"]

NoUp == [ep |-> "none", kind |-> "none", status |-> 0, body |-> ErrText, ret |-> "n/a"]

MeAnswers == {Response("users_me", 200, b) : b \in MeBodies}
             \cup {Response("users_me", 401, ErrText), TransportError("users_me")}

ListAnswers(ep) == {Response(ep, 200, b) : b \in ListBodies}
                   \cup {Response(ep, 404, ErrText), TransportError(ep)}

LinkAnswers == {Response("scheduling_links", 201, b) : b \in LinkBodies}
               \cup {Response("scheduling_links", 200, Body("created link", "json", "object", ABSENT, FALSE, "absent")),
                     Response("scheduling_links", 400, ErrText),
                     TransportError("scheduling_links")}

\* Query strings of GET /api/calendly/availability (all three are present
\* strings when the handler runs).
AvailInputs == [appointment_type : {EventTypeX, UriA, OtherHost, <<"">>},
                start_time : {<<"2025-11-14T20:00:00Z">>},
                end_time : {<<"2025-11-20T20:00:00Z">>}]

\* JSON objects posted to /api/calendly/book.
BookKeys == {"appointment_type", "owner_type", "max_event_count"}

BookValues(k) ==
    CASE k = "appointment_type" ->
             {NONE, PyStr(<<"">>), PyInt("5"), PyStr(EventTypeX), PyStr(UriA), PyStr(OtherHost)}
      [] k = "owner_type" -> {PyStr(<<"User">>)}
      [] k = "max_event_count" -> {PyInt("3")}

BookInputs == UNION { {d \in [K -> UNION {BookValues(k) : k \in K}] :
                          \A k \in K : d[k] \in BookValues(k)} : K \in SUBSET BookKeys }

-----------------------------------------------------------------------------
(* Labels of a step *)

NoReq == [kind |-> "none", input |-> <<>>]

NoOut == [ep |-> "none", by |-> "none", startCached |-> NONE, args |-> <<>>]

NoEv == [kind |-> "none", sent |-> 0, startCached |-> NONE,
         resp |-> [http |-> 0, kind |-> "none", fields |-> {}, code |-> 0,
                   body |-> ErrText, loc |-> <<>>]]

Resp(http, kind, fields, code, body, loc) ==
    [http |-> http, kind |-> kind, fields |-> fields, code |-> code,
     body |-> body, loc |-> loc]

\* An in-flight request: where its coroutine waits, the value of lastCached
\* when it began (kept for listing requests), the outbound requests it issued
Call(pc, startCached, sent) == [pc |-> pc, startCached |-> startCached, sent |-> sent]

Waiting(pc) == {c \in BagToSet(procs) : c.pc = pc}

\* The server accepts a further inbound request
Accepting == startup = "serving" /\ BagCardinality(procs) < NProcs

Begin(c) == procs' = procs (+) SetToBag({c})

End(c) == procs' = procs (-) SetToBag({c})

Identity == [uri |-> user_uri, uuid |-> user_uuid]

-----------------------------------------------------------------------------
(* CalendlyClient *)

\* test_connection with an else branch that forgets the identity when the
\* upstream answers with another status than 200
TestConnection_ClearOnFailure(a, uri, uuid) ==
    LET same == [uri |-> uri, uuid |-> uuid, ret |-> "none", cached |-> FALSE] IN
    IF a.kind = "exception" THEN same
    ELSE IF a.status # 200
         THEN [uri |-> NONE, uuid |-> NONE, ret |-> "none", cached |-> FALSE]
    ELSE IF a.body.fmt # "json" THEN same
    ELSE IF a.body.shape # "object" THEN same
    ELSE IF a.body.uri.t = "absent" THEN same
    ELSE IF a.body.uri.t # "str"
         THEN [uri |-> a.body.uri, uuid |-> uuid, ret |-> "none", cached |-> FALSE]
    ELSE IF ~a.body.name
         THEN [uri |-> a.body.uri, uuid |-> PyStr(<<LastSegment(a.body.uri.v)>>),
               ret |-> "none", cached |-> TRUE]
    ELSE [uri |-> a.body.uri, uuid |-> PyStr(<<LastSegment(a.body.uri.v)>>),
          ret |-> "data", cached |-> TRUE]

\* test_connection, from the upstream answer to GET /users/me on: the new
\* identity, what the call returns ("data" or "none"), and whether both
\* fields were assigned.
TestConnection(a, uri, uuid) ==
    LET same == [uri |-> uri, uuid |-> uuid, ret |-> "none", cached |-> FALSE] IN
    IF a.kind = "exception" THEN same
    ELSE IF a.status # 200 THEN same
    ELSE IF a.body.fmt # "json" THEN same               \* response.json() raises
    ELSE IF a.body.shape # "object" THEN same           \* user_data["resource"] raises
    ELSE IF a.body.uri.t = "absent" THEN same           \* KeyError
    ELSE IF a.body.uri.t # "str"                        \* .split raises after line 40
         THEN [uri |-> a.body.uri, uuid |-> uuid, ret |-> "none", cached |-> FALSE]
    ELSE IF ~a.body.name                                \* KeyError in the log line
         THEN [uri |-> a.body.uri, uuid |-> PyStr(<<LastSegment(a.body.uri.v)>>),
               ret |-> "none", cached |-> TRUE]
    ELSE [uri |-> a.body.uri, uuid |-> PyStr(<<LastSegment(a.body.uri.v)>>),
          ret |-> "data", cached |-> TRUE]

\* get_event_types verifying on every call
NeedsVerification_Always(uri) == TRUE

\* get_event_types, line 57: "if not self.user_uri"
NeedsVerification(uri) == Falsy(uri)

\* get_event_types lines 69-80 with a failing non-200 branch: the error
\* payload loses its details
GetEventTypesResult_NoDetails(a) ==
    IF a.kind = "exception"
    THEN Resp(200, "soft", {"error"}, 0, ErrText, <<>>)
    ELSE IF a.status = 200
    THEN IF /\ a.body.fmt = "json"
            /\ a.body.shape = "object"
            /\ a.body.coll # "null"
         THEN Resp(200, "body", {}, 0, a.body, <<>>)
         ELSE Resp(200, "soft", {"error"}, 0, ErrText, <<>>)
    ELSE Resp(200, "soft", {"error"}, a.status, ErrText, <<>>)

\* get_event_types, from the upstream answer to GET /event_types on
GetEventTypesResult(a) ==
    IF a.kind = "exception"
    THEN Resp(200, "soft", {"error"}, 0, ErrText, <<>>)
    ELSE IF a.status = 200
    THEN IF /\ a.body.fmt = "json"                      \* response.json()
            /\ a.body.shape = "object"                  \* data.get
            /\ a.body.coll # "null"                     \* len(...)
         THEN Resp(200, "body", {}, 0, a.body, <<>>)
         ELSE Resp(200, "soft", {"error"}, 0, ErrText, <<>>)
    ELSE Resp(200, "soft", {"error", "details"}, a.status, a.body, <<>>)

\* get_availability, from the upstream answer on
GetAvailabilityResult(a) ==
    IF a.kind = "exception"
    THEN Resp(200, "soft", {"error"}, 0, ErrText, <<>>)
    ELSE IF a.status = 200
    THEN IF /\ a.body.fmt = "json"                      \* response.json()
            /\ a.body.shape = "object"                  \* data.get
            /\ a.body.coll # "null"                     \* len(...)
         THEN Resp(200, "body", {}, 0, a.body, <<>>)
         ELSE Resp(200, "soft", {"error"}, 0, ErrText, <<>>)
    ELSE Resp(200, "soft", {"error", "details"}, a.status, a.body, <<>>)

-----------------------------------------------------------------------------
(* Handlers *)

\* get_calendly_availability testing the prefix create_scheduling_link tests
AvailabilityValid_BookPrefix(appointment_type) == StartsWith(appointment_type, BookPrefix)

\* get_calendly_availability, line 153
AvailabilityValid(appointment_type) == StartsWith(appointment_type, EventTypePrefix)

AvailabilityError ==
    Resp(422, "validation", {"detail"}, 0, ErrText, <<"query", "appointment_type">>)

\* create_scheduling_link, lines 177-186: "ok", "reject" (422) or "raise"
\* (.startswith on a value that is not a string, outside the try)
BookCheck(payload) ==
    LET appointment_type == Get(payload, "appointment_type", NONE) IN
    IF Falsy(appointment_type) THEN "reject"
    ELSE IF appointment_type.t # "str" THEN "raise"
    ELSE IF ~StartsWith(appointment_type.v, BookPrefix) THEN "reject"
    ELSE "ok"

BookError ==
    Resp(422, "validation", {"detail"}, 0, ErrText, <<"body", "appointment_type">>)

Unhandled == Resp(500, "unhandled", {}, 0, ErrText, <<>>)

\* create_scheduling_link reading owner_type without its default
CalendlyPayload_NoDefault(payload) ==
    [max_event_count |-> Get(payload, "max_event_count", PyInt("1")),
     owner |-> Get(payload, "appointment_type", NONE),
     owner_type |-> Get(payload, "owner_type", NONE)]

\* create_scheduling_link, lines 189-193
CalendlyPayload(payload) ==
    [max_event_count |-> Get(payload, "max_event_count", PyInt("1")),
     owner |-> Get(payload, "appointment_type", NONE),
     owner_type |-> Get(payload, "owner_type", PyStr(<<"EventType">>))]

\* create_scheduling_link taking every 2xx status for a success
BookResult_Any2xx(a) ==
    IF a.kind = "exception"
    THEN Resp(500, "http_exception", {"detail"}, 0, ErrText, <<>>)
    ELSE IF a.status >= 200 /\ a.status < 300
    THEN IF a.body.fmt = "json"
         THEN Resp(200, "body", {}, 0, a.body, <<>>)
         ELSE Resp(500, "http_exception", {"detail"}, 0, ErrText, <<>>)
    ELSE Resp(200, "soft", {"error", "details"}, a.status, a.body, <<>>)

\* create_scheduling_link, lines 203-216
BookResult(a) ==
    IF a.kind = "exception"
    THEN Resp(500, "http_exception", {"detail"}, 0, ErrText, <<>>)
    ELSE IF a.status = 201
    THEN IF a.body.fmt = "json"
         THEN Resp(200, "body", {}, 0, a.body, <<>>)
         ELSE Resp(500, "http_exception", {"detail"}, 0, ErrText, <<>>)
    ELSE Resp(200, "soft", {"error", "details"}, a.status, a.body, <<>>)

\* test_calendly_connection, lines 134-136
TestConnectionResponse(ret) ==
    IF ret = "data"
    THEN Resp(200, "status_success", {"status", "user"}, 0, ErrText, <<>>)
    ELSE Resp(200, "status_error", {"status", "message"}, 0, ErrText, <<>>)

-----------------------------------------------------------------------------
Init == /\ startup = "init"
        /\ user_uri = NONE
        /\ user_uuid = NONE
        /\ procs = EmptyBag
        /\ lastCached = NONE
        /\ prior = [uri |-> NONE, uuid |-> NONE]
        /\ req = NoReq
        /\ out = NoOut
        /\ up = NoUp
        /\ ev = NoEv

UsersMe(by, startCached) ==
    [ep |-> "users_me", by |-> by, startCached |-> startCached, args |-> <<>>]

\* The assignments of test_connection for answer a
Verify(a) ==
    LET r == TestConnection(a, user_uri, user_uuid) IN
    /\ user_uri' = r.uri
    /\ user_uuid' = r.uuid
    /\ lastCached' = IF r.cached THEN r.uri ELSE lastCached
    /\ up' = [a EXCEPT !.ret = r.ret]

\* startup_event up to its await
StartupEvent ==
    /\ startup = "init"
    /\ startup' = "wait"
    /\ out' = UsersMe("startup", NONE)
    /\ prior' = Identity
    /\ req' = [kind |-> "startup", input |-> <<>>]
    /\ up' = NoUp
    /\ ev' = NoEv
    /\ UNCHANGED <<user_uri, user_uuid, procs, lastCached>>

\* startup_event from the answer to /users/me on
StartupDone ==
    /\ startup = "wait"
    /\ \E a \in MeAnswers : Verify(a)
    /\ startup' = "serving"
    /\ prior' = Identity
    /\ req' = NoReq
    /\ out' = NoOut
    /\ ev' = NoEv
    /\ UNCHANGED procs

\* GET /
Root ==
    /\ Accepting
    /\ req' = [kind |-> "root", input |-> <<>>]
    /\ ev' = [kind |-> "root", sent |-> 0, startCached |-> NONE,
              resp |-> Resp(200, "message", {"message"}, 0, ErrText, <<>>)]
    /\ prior' = Identity
    /\ out' = NoOut
    /\ up' = NoUp
    /\ UNCHANGED <<startup, user_uri, user_uuid, procs, lastCached>>

\* GET /api/test-connection up to the await of line 37
TestCalendlyConnection ==
    /\ Accepting
    /\ Begin(Call("tc_wait", NONE, 1))
    /\ req' = [kind |-> "test_connection", input |-> <<>>]
    /\ out' = UsersMe("test_connection", NONE)
    /\ prior' = Identity
    /\ up' = NoUp
    /\ ev' = NoEv
    /\ UNCHANGED <<startup, user_uri, user_uuid, lastCached>>

\* GET /api/test-connection from the answer on
TestCalendlyConnectionDone(c) ==
    /\ \E a \in MeAnswers :
          /\ Verify(a)
          /\ ev' = [kind |-> "test_connection", sent |-> c.sent,
                    startCached |-> c.startCached,
                    resp |-> TestConnectionResponse(TestConnection(a, user_uri, user_uuid).ret)]
    /\ End(c)
    /\ prior' = Identity
    /\ req' = NoReq
    /\ out' = NoOut
    /\ UNCHANGED startup

EventTypes(startCached) ==
    [ep |-> "event_types", by |-> "events", startCached |-> startCached,
     args |-> [user |-> user_uri]]

\* GET /api/calendly/events up to its first await: of the verification
\* (line 58) or of the listing request (line 63)
GetCalendlyEvents ==
    /\ Accepting
    /\ IF NeedsVerification(user_uri)
       THEN /\ Begin(Call("ev_me", lastCached, 1))
            /\ out' = UsersMe("events", lastCached)
       ELSE /\ Begin(Call("ev_wait", lastCached, 1))
            /\ out' = EventTypes(lastCached)
    /\ req' = [kind |-> "events", input |-> <<>>]
    /\ prior' = Identity
    /\ up' = NoUp
    /\ ev' = NoEv
    /\ UNCHANGED <<startup, user_uri, user_uuid, lastCached>>

\* get_event_types inside test_connection, from the answer to /users/me up
\* to the close of test_connection's client (the exit of "async with")
GetCalendlyEventsVerified(c) ==
    /\ \E a \in MeAnswers : Verify(a)
    /\ procs' = (procs (-) SetToBag({c})) (+) SetToBag({Call("ev_verified", c.startCached, c.sent)})
    /\ prior' = Identity
    /\ req' = NoReq
    /\ out' = NoOut
    /\ ev' = NoEv
    /\ UNCHANGED startup

\* get_event_types lines 60-67: read user_uri and send the listing request
GetCalendlyEventsSend(c) ==
    /\ procs' = (procs (-) SetToBag({c})) (+) SetToBag({Call("ev_wait", c.startCached, c.sent + 1)})
    /\ out' = EventTypes(c.startCached)
    /\ prior' = Identity
    /\ req' = NoReq
    /\ up' = NoUp
    /\ ev' = NoEv
    /\ UNCHANGED <<startup, user_uri, user_uuid, lastCached>>

\* GET /api/calendly/events from the answer to /event_types on
GetCalendlyEventsDone(c) ==
    /\ \E a \in ListAnswers("event_types") :
          /\ up' = a
          /\ ev' = [kind |-> "events", sent |-> c.sent,
                    startCached |-> c.startCached,
                    resp |-> GetEventTypesResult(a)]
    /\ End(c)
    /\ prior' = Identity
    /\ req' = NoReq
    /\ out' = NoOut
    /\ UNCHANGED <<startup, user_uri, user_uuid, lastCached>>

\* GET /api/calendly/availability up to the await of line 89, or to the
\* validation error of line 154
GetCalendlyAvailability ==
    /\ Accepting
    /\ \E i \in AvailInputs :
          /\ req' = [kind |-> "availability", input |-> i]
          /\ IF AvailabilityValid(i.appointment_type)
             THEN /\ Begin(Call("av_wait", NONE, 1))
                  /\ out' = [ep |-> "available_times", by |-> "availability",
                             startCached |-> NONE,
                             args |-> [event_type |-> i.appointment_type,
                                       start_time |-> i.start_time,
                                       end_time |-> i.end_time]]
                  /\ ev' = NoEv
             ELSE /\ procs' = procs
                  /\ out' = NoOut
                  /\ ev' = [kind |-> "availability", sent |-> 0, startCached |-> NONE,
                            resp |-> AvailabilityError]
    /\ prior' = Identity
    /\ up' = NoUp
    /\ UNCHANGED <<startup, user_uri, user_uuid, lastCached>>

\* GET /api/calendly/availability from the upstream answer on
GetCalendlyAvailabilityDone(c) ==
    /\ \E a \in ListAnswers("available_times") :
          /\ up' = a
          /\ ev' = [kind |-> "availability", sent |-> c.sent,
                    startCached |-> c.startCached,
                    resp |-> GetAvailabilityResult(a)]
    /\ End(c)
    /\ prior' = Identity
    /\ req' = NoReq
    /\ out' = NoOut
    /\ UNCHANGED <<startup, user_uri, user_uuid, lastCached>>

\* POST /api/calendly/book up to the await of line 197, or to the error of
\* its validation
CreateSchedulingLink ==
    /\ Accepting
    /\ \E payload \in BookInputs :
          /\ req' = [kind |-> "book", input |-> payload]
          /\ IF BookCheck(payload) = "ok"
             THEN /\ Begin(Call("bk_wait", NONE, 1))
                  /\ out' = [ep |-> "scheduling_links", by |-> "book",
                             startCached |-> NONE,
                             args |-> CalendlyPayload(payload)]
                  /\ ev' = NoEv
             ELSE /\ procs' = procs
                  /\ out' = NoOut
                  /\ ev' = [kind |-> "book", sent |-> 0, startCached |-> NONE,
                            resp |-> IF BookCheck(payload) = "reject"
                                     THEN BookError ELSE Unhandled]
    /\ prior' = Identity
    /\ up' = NoUp
    /\ UNCHANGED <<startup, user_uri, user_uuid, lastCached>>

\* POST /api/calendly/book from the upstream answer on
CreateSchedulingLinkDone(c) ==
    /\ \E a \in LinkAnswers :
          /\ up' = a
          /\ ev' = [kind |-> "book", sent |-> c.sent,
                    startCached |-> c.startCached,
                    resp |-> BookResult(a)]
    /\ End(c)
    /\ prior' = Identity
    /\ req' = NoReq
    /\ out' = NoOut
    /\ UNCHANGED <<startup, user_uri, user_uuid, lastCached>>

Next == \/ StartupEvent
        \/ StartupDone
        \/ Root
        \/ TestCalendlyConnection
        \/ \E c \in Waiting("tc_wait") : TestCalendlyConnectionDone(c)
        \/ GetCalendlyEvents
        \/ \E c \in Waiting("ev_me") : GetCalendlyEventsVerified(c)
        \/ \E c \in Waiting("ev_verified") : GetCalendlyEventsSend(c)
        \/ \E c \in Waiting("ev_wait") : GetCalendlyEventsDone(c)
        \/ GetCalendlyAvailability
        \/ \E c \in Waiting("av_wait") : GetCalendlyAvailabilityDone(c)
        \/ CreateSchedulingLink
        \/ \E c \in Waiting("bk_wait") : CreateSchedulingLinkDone(c)

Spec == Init /\ [][Next]_vars

-----------------------------------------------------------------------------
(* Properties.  The labels req, out, up and ev describe the step that led  *)
(* to the current state; prior is the identity before that step.           *)

\* The upstream answered "current user" with a status other than 200 and the
\* test-connection request completed in this step
FailedTest == /\ ev.kind = "test_connection"
              /\ up.kind = "response"
              /\ up.status # 200

\* The step completed a listing request with an upstream answer
ListingDone == /\ ev.kind \in {"events", "availability"}
               /\ up.ep \in {"event_types", "available_times"}

\* The step completed a booking request with an upstream answer
BookDone == ev.kind = "book" /\ up.ep = "scheduling_links"

\* C1: a get_event_types call that begins after a test_connection call got
\* a 200 and cached the identity issues no /users/me request, and its
\* event-type request carries that cached URI as the user filter.
C1_ListingReusesCachedIdentity ==
    (out.by = "events" /\ out.startCached # NONE)
       => /\ out.ep = "event_types"
          /\ out.args.user = out.startCached

\* C2 as stated: after a test-connection request whose upstream answer was
\* not a 200, the response is the error status and no identity is cached.
C2_FailedTestLeavesNoIdentity ==
    FailedTest => /\ ev.resp.kind = "status_error"
                  /\ user_uri = NONE
                  /\ user_uuid = NONE

\* C2 amended: a test-connection request whose upstream answer was not a
\* 200 responds {status: "error", message} and leaves the cached identity
\* as it was before, whether absent or set by an earlier success.
C2_FailedTestKeepsIdentity ==
    FailedTest => /\ ev.resp.http = 200
                  /\ ev.resp.kind = "status_error"
                  /\ ev.resp.fields = {"status", "message"}
                  /\ Identity = prior

C2_Witness == FailedTest /\ user_uri = PyStr(UriA) /\ user_uuid = PyStr(<<"AAA">>)

\* C3: an availability request whose appointment_type does not begin with
\* https://api.calendly.com/event_types/ ends in a 422 naming the query
\* field appointment_type, issues no outbound request and leaves the cached
\* identity unchanged.
C3_AvailabilityRejectsBadPrefix ==
    (req.kind = "availability"
       /\ ~StartsWith(req.input.appointment_type, EventTypePrefix))
       => /\ ev.kind = "availability"
          /\ ev.resp.http = 422
          /\ ev.resp.loc = <<"query", "appointment_type">>
          /\ ev.sent = 0
          /\ out.ep = "none"
          /\ Identity = prior

C3_Witness == /\ req.kind = "availability"
              /\ req.input.appointment_type = UriA
              /\ ev.resp.http = 422
              /\ user_uri # NONE

\* C4: a booking request whose appointment_type is missing, empty, not a
\* string or does not begin with https://api.calendly.com/event_types/ ends
\* in a 422 naming the body field appointment_type and issues no outbound
\* request.
C4_BookRejectsBadEventType ==
    LET t == Get(req.input, "appointment_type", ABSENT) IN
    (req.kind = "book"
       /\ (t.t # "str" \/ t.v = <<"">> \/ ~StartsWith(t.v, EventTypePrefix)))
       => /\ ev.kind = "book"
          /\ ev.resp.http = 422
          /\ ev.resp.loc = <<"body", "appointment_type">>
          /\ out.ep = "none"

\* C5: a booking request that passes validation issues exactly one outbound
\* POST to scheduling_links, whose payload has exactly the fields
\* max_event_count, owner and owner_type: owner is the appointment_type,
\* owner_type the supplied one or "EventType", max_event_count the supplied
\* one or 1.
C5_BookPayload ==
    /\ (req.kind = "book" /\ BookCheck(req.input) = "ok")
          => /\ out.ep = "scheduling_links"
             /\ DOMAIN out.args = {"max_event_count", "owner", "owner_type"}
             /\ out.args.owner = req.input["appointment_type"]
             /\ out.args.owner_type =
                   (IF "owner_type" \in DOMAIN req.input
                    THEN req.input["owner_type"] ELSE PyStr(<<"EventType">>))
             /\ out.args.max_event_count =
                   (IF "max_event_count" \in DOMAIN req.input
                    THEN req.input["max_event_count"] ELSE PyInt("1"))
    /\ out.ep = "scheduling_links" => (req.kind = "book" /\ BookCheck(req.input) = "ok")
    /\ BookDone => ev.sent = 1
    /\ \A c \in Waiting("bk_wait") : c.sent = 1

C5_Witness == /\ out.ep = "scheduling_links"
              /\ DOMAIN req.input = {"appointment_type"}
              /\ out.args.owner = PyStr(EventTypeX)
              /\ out.args.owner_type = PyStr(<<"EventType">>)

\* C6 as stated: a booking request that got an upstream response returns
\* the upstream body on a 201 and {error, details} with the status on any
\* other status; a transport failure yields a 500.
C6_BookResultByStatus ==
    BookDone =>
       IF up.kind = "exception"
       THEN ev.resp.http = 500 /\ ev.resp.kind # "soft"
       ELSE IF up.status = 201
       THEN ev.resp.http = 200 /\ ev.resp.kind = "body" /\ ev.resp.body = up.body
       ELSE /\ ev.resp.http = 200
            /\ ev.resp.kind = "soft"
            /\ ev.resp.fields = {"error", "details"}
            /\ ev.resp.code = up.status
            /\ ev.resp.body = up.body

\* C6 amended: as stated, except that a 201 whose body is not JSON yields a
\* 500 like a transport failure; a 201 with a JSON body returns that body.
C6_BookResultByStatusAndBody ==
    BookDone =>
       IF up.kind = "exception" \/ (up.status = 201 /\ up.body.fmt # "json")
       THEN ev.resp.http = 500 /\ ev.resp.kind # "soft"
       ELSE IF up.status = 201
       THEN ev.resp.http = 200 /\ ev.resp.kind = "body" /\ ev.resp.body = up.body
       ELSE /\ ev.resp.http = 200
            /\ ev.resp.kind = "soft"
            /\ ev.resp.fields = {"error", "details"}
            /\ ev.resp.code = up.status
            /\ ev.resp.body = up.body

C6_Witness == /\ BookDone
              /\ up.kind = "response"
              /\ up.status = 201
              /\ up.body.fmt # "json"
              /\ ev.resp.http = 500

\* C7 as stated: no "current user" request is issued except by an operation
\* that needs the identity (listing event types), and a cached user URI
\* never changes or reverts to null.
C7_IdentityLazyAndStable ==
    /\ out.ep = "users_me" => out.by = "events"
    /\ prior.uri # NONE => user_uri = prior.uri

\* C7 amended: the identity is fetched by the startup hook, by every
\* test-connection request, and by a listing request only when the cached
\* user URI is empty; the cached identity changes only in a step that
\* handles an upstream 200 to "current user" whose JSON body carries
\* resource.uri, and user_uri then becomes that value (which may differ from
\* the one cached before, or be null).
C7_IdentityChangesOnlyOnVerified200 ==
    /\ (out.ep = "users_me" /\ out.by = "events") => Falsy(user_uri)
    /\ req.kind \in {"startup", "test_connection"} => out.ep = "users_me"
    /\ Identity # prior
          => /\ up.ep = "users_me"
             /\ up.kind = "response"
             /\ up.status = 200
             /\ up.body.fmt = "json"
             /\ up.body.uri.t # "absent"
             /\ user_uri = up.body.uri

C7_Witness == /\ prior.uri = PyStr(UriA)
              /\ user_uri = PyStr(UriB)
              /\ ev.kind = "test_connection"

\* C8 as stated: a listing request never raises; on an upstream 200 it
\* returns the upstream body, and on every failure a 200-status payload with
\* both an error and a details field.
C8_ListingFailuresCarryDetails ==
    ListingDone =>
       /\ ev.resp.http = 200
       /\ IF up.kind = "response" /\ up.status = 200
          THEN ev.resp.kind = "body" /\ ev.resp.body = up.body
          ELSE ev.resp.kind = "soft" /\ ev.resp.fields = {"error", "details"}

\* C8 amended: a listing request never raises and always answers with
\* status 200.  A non-200 upstream status gives {error, details} with the
\* status and the upstream text; a transport failure, or a 200 whose body
\* is not a JSON object with a sized collection, gives a payload with an
\* error field only; any other 200 returns the upstream body.
C8_ListingResults ==
    ListingDone =>
       /\ ev.resp.http = 200
       /\ IF up.kind = "response" /\ up.status # 200
          THEN /\ ev.resp.kind = "soft"
               /\ ev.resp.fields = {"error", "details"}
               /\ ev.resp.code = up.status
               /\ ev.resp.body = up.body
          ELSE IF \/ up.kind = "exception"
                  \/ up.body.fmt # "json"
                  \/ up.body.shape # "object"
                  \/ up.body.coll = "null"
          THEN ev.resp.kind = "soft" /\ ev.resp.fields = {"error"}
          ELSE ev.resp.kind = "body" /\ ev.resp.body = up.body

C8_Witness == /\ ListingDone
              /\ ev.kind = "events"
              /\ up.kind = "response"
              /\ up.status = 404
              /\ ev.resp.fields = {"error", "details"}

\* C9: every outbound event-type request is issued while the cached account
\* URI is non-null and carries it as the user filter; a listing request
\* makes at most one verification round-trip.
C9_ListingOnlyWithIdentity ==
    /\ out.ep = "event_types" => (user_uri # NONE /\ out.args.user = user_uri)
    /\ ev.kind = "events" => ev.sent <= 2
    /\ \A c \in BagToSet(procs) : c.sent <= 2

\* C10: user_uri and user_uuid are both null, or both set with user_uuid the
\* last "/"-separated segment of user_uri; a verification that reports
\* failure has changed neither.
C10_IdentityHalvesAgree ==
    /\ \/ user_uri = NONE /\ user_uuid = NONE
       \/ /\ user_uri.t = "str"
          /\ user_uuid = PyStr(<<LastSegment(user_uri.v)>>)
    /\ (up.ep = "users_me" /\ up.ret = "none") => Identity = prior

====
